---------------------------- MODULE Spec2Model ----------------------------
(***************************************************************************)
(* A model of ant/core/message.py: the ANT serial frame codec              *)
(* (Message.encode / Message.decode / Message.getHandler), the channel     *)
(* addressing layer (ChannelMessage) and the message variants with their   *)
(* field setters.                                                          *)
(*                                                                         *)
(* Python objects are modelled as records holding a reference into a heap  *)
(* of bytearrays, so that two objects holding the same bytearray are       *)
(* distinguishable from two objects holding equal bytearrays.              *)
(***************************************************************************)
EXTENDS Integers, Sequences, FiniteSets, TLC

VARIABLES self, hnd, heap, raw, wire, last, stream, cursor, sent, rcvd

vars == <<self, hnd, heap, raw, wire, last, stream, cursor, sent, rcvd>>

(***************************************************************************)
(* Bounds of the model.                                                    *)
(***************************************************************************)
\* payloads of up to this length are enumerated over every byte of ByteVals
MaxVarLen == 1
\* arbitrary receive buffers are enumerated up to this length
MaxRawLen == 5
\* number of frames concatenated into a stream
MaxFrames == 2
\* number of bytearray objects the heap can hold
NRefs == 3

(***************************************************************************)
(* Constants of the program.                                               *)
(***************************************************************************)
\* ant.core.constants.MESSAGE_TX_SYNC (0xA4)
MESSAGE_TX_SYNC == 164
\* the longest payload setPayload/decode accept
MaxPayload == 9
\* the shortest buffer decode looks at
MinRaw == 5
\* the largest value of a byte
ByteMax == 255

INCOMPLETE == "incomplete"
CORRUPTED == "corrupted"
MALFORMED == "malformed"
OK == "ok"

(***************************************************************************)
(* Integer helpers: Python's ^ on non-negative ints, bytearray slices.     *)
(***************************************************************************)
RECURSIVE Xor(_, _)
Xor(a, b) ==
    IF a = 0 THEN b
    ELSE IF b = 0 THEN a
    ELSE (((a % 2) + (b % 2)) % 2) + (2 * Xor(a \div 2, b \div 2))

\* Python's seq[lo:hi] for 0 <= lo, with 0-based, half-open bounds
Slice(s, lo, hi) ==
    LET h == IF hi > Len(s) THEN Len(s) ELSE hi
    IN  IF lo >= h THEN <<>> ELSE SubSeq(s, lo + 1, h)

\* Python's seq[i] with a 0-based index
At(s, i) == s[i + 1]

IsByte(v) == v >= 0 /\ v <= ByteMax

(***************************************************************************)
(* Message: getChecksum, getSize, encode, setType, setPayload, decode.     *)
(* A message is seen here by value: [type_, payload].                      *)
(***************************************************************************)
RECURSIVE XorBytes(_, _)
XorBytes(acc, bytes) ==
    IF bytes = <<>> THEN acc
    ELSE XorBytes(Xor(acc, Head(bytes)), Tail(bytes))

getChecksumNoType(type_, payload) ==
    XorBytes(Xor(MESSAGE_TX_SYNC, Len(payload)), payload)

getChecksumNoLen(type_, payload) ==
    XorBytes(Xor(MESSAGE_TX_SYNC, type_), payload)

getChecksum(type_, payload) ==
    XorBytes(Xor(Xor(MESSAGE_TX_SYNC, Len(payload)), type_), payload)

getSizeShort(payload) == Len(payload) + 3

getSize(payload) == Len(payload) + 4

encode(type_, payload) ==
    <<MESSAGE_TX_SYNC, Len(payload), type_>> \o payload
        \o <<getChecksum(type_, payload)>>

\* setType: the outcome of the range check
setTypeOutcome(type_) ==
    IF type_ > ByteMax \/ type_ < 0 THEN CORRUPTED ELSE OK

\* setPayload: the outcome of the length check
setPayloadOutcome(payload) ==
    IF Len(payload) > MaxPayload THEN MALFORMED ELSE OK

payloadSliceShort(b, length) == Slice(b, 3, length + 2)

\* raw[3:length + 3]
payloadSlice(b, length) == Slice(b, 3, length + 3)

\* The result of decode: the outcome, the value returned on success, whether
\* decode got as far as setType and setPayload, and the type and payload the
\* message holds when decode returns or raises.
DecodeResult(out, ret, wrote, type_, payload) ==
    [out |-> out, ret |-> ret, wrote |-> wrote, type_ |-> type_,
     payload |-> payload]

\* decode left the message as it was
Untouched(out, m) == DecodeResult(out, 0, FALSE, m.type_, m.payload)

decodeLengthFirst(m, b) ==
    IF Len(b) < MinRaw THEN Untouched(INCOMPLETE, m)
    ELSE LET sync == At(b, 0)
             length == At(b, 1)
             type_ == At(b, 2)
         IN  IF length > MaxPayload THEN Untouched(MALFORMED, m)
             ELSE IF sync # MESSAGE_TX_SYNC THEN Untouched(CORRUPTED, m)
             ELSE IF Len(b) < length + 4 THEN Untouched(INCOMPLETE, m)
             ELSE LET p == payloadSlice(b, length)
                  IN  IF getChecksum(type_, p) # At(b, length + 3)
                          THEN DecodeResult(CORRUPTED, 0, TRUE, type_, p)
                      ELSE DecodeResult(OK, getSize(p), TRUE, type_, p)

decode(m, b) ==
    IF Len(b) < MinRaw THEN Untouched(INCOMPLETE, m)
    ELSE LET sync == At(b, 0)
             length == At(b, 1)
             type_ == At(b, 2)
         IN  IF sync # MESSAGE_TX_SYNC THEN Untouched(CORRUPTED, m)
             ELSE IF length > MaxPayload THEN Untouched(MALFORMED, m)
             ELSE IF Len(b) < length + 4 THEN Untouched(INCOMPLETE, m)
             ELSE \* self.setType(type_); self.setPayload(raw[3:length + 3])
                  LET p == payloadSlice(b, length)
                  IN  IF getChecksum(type_, p) # At(b, length + 3)
                          THEN DecodeResult(CORRUPTED, 0, TRUE, type_, p)
                      ELSE DecodeResult(OK, getSize(p), TRUE, type_, p)

(***************************************************************************)
(* Inputs of the operations.                                               *)
(***************************************************************************)
\* type codes handed to constructors and setType: a code with no variant
\* and MESSAGE_CHANNEL_OPEN (0x4B)
TypeVals == {0, 75}
\* out-of-range type codes
BadTypes == {0 - 1, ByteMax + 1}
\* bytes handed to constructors and setters
ByteVals == {0, 3, MESSAGE_TX_SYNC}

Fill(n) == [i \in 1..n |-> 3]

\* payloads handed to constructors and setPayload: every short one, one of
\* the longest legal length and one that is too long
PayloadSet ==
    UNION {[1..n -> ByteVals] : n \in 0..MaxVarLen}
        \cup {Fill(MaxPayload), Fill(MaxPayload + 1)}

\* The arbitrary buffers handed to decode, byte by byte: a right or wrong
\* sync, a length that is small or above MaxPayload, a type, a first payload
\* byte (or the checksum of an empty payload), then bytes from a set closed
\* under xor with the sync byte, so that some of the buffers carry the right
\* checksum, and past the shortest frame a byte that is trailing data or the
\* checksum of a longer payload.
WireByte(i) ==
    IF i = 1 THEN {0, MESSAGE_TX_SYNC}
    ELSE IF i = 2 THEN {0, 1, 2, MaxPayload + 1}
    ELSE IF i = 3 THEN {0, 1}
    ELSE IF i = 4 THEN {0, MESSAGE_TX_SYNC}
    ELSE IF i <= MinRaw THEN {0, 1, MESSAGE_TX_SYNC, MESSAGE_TX_SYNC + 1}
    ELSE {0, 2}

RECURSIVE RawOfLen(_)
RawOfLen(n) ==
    IF n = 0 THEN {<<>>}
    ELSE {Append(b, x) : b \in RawOfLen(n - 1), x \in WireByte(n)}

RawSet == UNION {RawOfLen(n) : n \in 0..MaxRawLen}

(***************************************************************************)
(* The heap of bytearrays and the two objects of the model: self, the      *)
(* Message that encodes and decodes, and hnd, a message variant.           *)
(***************************************************************************)
Refs == 1..NRefs

NoObj == [cls |-> "none", type_ |-> 0, payload |-> 0]

\* the references an object pair holds
Used(s, h) == {s.payload} \cup (IF h.cls = "none" THEN {} ELSE {h.payload})

\* a reference no object holds: a newly created bytearray
FreshRef == CHOOSE r \in Refs : r \notin Used(self, hnd)

\* The objects s and h and the heap hp they point into become the next
\* state.  References are kept up to renaming: self's bytearray is moved to
\* reference 1, and hnd's to 2 unless it is self's; bytearrays no object
\* holds any more are dropped.
Store(hp, s, h) ==
    LET shared == h.cls # "none" /\ h.payload = s.payload
        own == h.cls # "none" /\ h.payload # s.payload
    IN  /\ self' = [s EXCEPT !.payload = 1]
        /\ hnd' = IF h.cls = "none" THEN h
                  ELSE [h EXCEPT !.payload = IF shared THEN 1 ELSE 2]
        /\ heap' = [r \in Refs |->
                        IF r = 1 THEN hp[s.payload]
                        ELSE IF r = 2 /\ own THEN hp[h.payload]
                        ELSE <<>>]

\* an object by value
Val(o) == [type_ |-> o.type_, payload |-> heap[o.payload]]

NoVal == [type_ |-> 0, payload |-> <<>>]

\* what the last operation was, how it ended and what it returned; pre is
\* the receiver by value before the operation, arg its argument
Done(op, out, ret, pre, arg) ==
    [op |-> op, out |-> out, ret |-> ret, pre |-> pre, arg |-> arg]

NoWire == [src |-> "none", orig |-> <<>>, pos |-> 0, bit |-> 0]

Init ==
    /\ self = [type_ |-> 0, payload |-> 1]
    /\ hnd = NoObj
    /\ heap = [r \in Refs |-> <<>>]
    /\ raw = <<>>
    /\ wire = NoWire
    /\ last = Done("init", OK, 0, NoVal, <<>>)
    /\ stream = <<>>
    /\ cursor = 0
    /\ sent = <<>>
    /\ rcvd = <<>>

(***************************************************************************)
(* Message: construction and the two setters, on self.                     *)
(***************************************************************************)
\* Message(type_, payload): setType, then setPayload
MessageInitOutcome(type_, payload) ==
    IF setTypeOutcome(type_) # OK THEN setTypeOutcome(type_)
    ELSE setPayloadOutcome(payload)

\* a failed constructor yields no object: the caller keeps the one it had
NewMessage(t, p) ==
    LET out == MessageInitOutcome(t, p)
        r == FreshRef
        s == [type_ |-> t, payload |-> r]
    IN  /\ IF out = OK
              THEN Store([heap EXCEPT ![r] = p], s, hnd)
              ELSE UNCHANGED <<self, hnd, heap>>
        /\ last' = Done("Message", out, 0, NoVal, <<>>)
        /\ UNCHANGED <<raw, wire, stream, cursor, sent, rcvd>>

SetType(t) ==
    LET out == setTypeOutcome(t)
    IN  /\ self' = IF out = OK THEN [self EXCEPT !.type_ = t] ELSE self
        /\ last' = Done("setType", out, 0, NoVal, <<>>)
        /\ UNCHANGED <<hnd, heap, raw, wire, stream, cursor, sent, rcvd>>

\* setPayload rebinds self.payload to the bytearray it is given
SetPayload(p) ==
    LET out == setPayloadOutcome(p)
        r == FreshRef
        s == [self EXCEPT !.payload = r]
    IN  /\ IF out = OK
              THEN Store([heap EXCEPT ![r] = p], s, hnd)
              ELSE UNCHANGED <<self, hnd, heap>>
        /\ last' = Done("setPayload", out, 0, NoVal, <<>>)
        /\ UNCHANGED <<raw, wire, stream, cursor, sent, rcvd>>

(***************************************************************************)
(* encode and decode on self; raw is the buffer encode returned.           *)
(***************************************************************************)
EncodeSelf ==
    /\ raw' = encode(self.type_, heap[self.payload])
    /\ wire' = [NoWire EXCEPT !.src = "encode"]
    /\ last' = Done("encode", OK, encode(self.type_, heap[self.payload]),
                    Val(self), <<>>)
    /\ UNCHANGED <<self, hnd, heap, stream, cursor, sent, rcvd>>

FlipAt(b, pos, bit) == [b EXCEPT ![pos + 1] = Xor(b[pos + 1], 2 ^ bit)]

\* one bit of the frame that encode produced from a message of the input
\* domain is flipped on the way
FlipBit(pos, bit) ==
    /\ wire.src = "encode"
    /\ last.op = "encode"
    /\ last.pre.type_ \in TypeVals
    /\ last.pre.payload \in PayloadSet
    /\ pos \in 0..(Len(raw) - 1)
    /\ raw' = FlipAt(raw, pos, bit)
    /\ wire' = [src |-> "flip", orig |-> raw, pos |-> pos, bit |-> bit]
    /\ last' = Done("flip", OK, 0, NoVal, <<>>)
    /\ UNCHANGED <<self, hnd, heap, stream, cursor, sent, rcvd>>

\* self.decode(b): decode writes type_ and a new payload bytearray into
\* self before it compares the checksum
Decode(b) ==
    \E d \in {decode(Val(self), b)} :
    LET r == FreshRef
        s == [type_ |-> d.type_, payload |-> r]
    IN  /\ IF d.wrote
              THEN Store([heap EXCEPT ![r] = d.payload], s, hnd)
              ELSE UNCHANGED <<self, hnd, heap>>
        /\ last' = Done("decode", d.out, d.ret, Val(self), b)
        /\ UNCHANGED <<raw, wire, stream, cursor, sent, rcvd>>

\* decode of the buffer encode returned (possibly with a bit flipped)
DecodeRaw ==
    /\ wire.src # "none"
    /\ Decode(raw)

\* decode of an arbitrary buffer
DecodeBuffer(b) == Decode(b)

NextCodec ==
    \/ \E t \in TypeVals \cup BadTypes, p \in PayloadSet : NewMessage(t, p)
    \/ \E t \in TypeVals \cup BadTypes : SetType(t)
    \/ \E p \in PayloadSet : SetPayload(p)
    \/ EncodeSelf
    \/ DecodeRaw

SpecCodec == Init /\ [][NextCodec]_vars

NextDecode ==
    \/ \E t \in TypeVals, p \in {<<>>, <<3>>} : NewMessage(t, p)
    \/ \E b \in RawSet : DecodeBuffer(b)

SpecDecode == Init /\ [][NextDecode]_vars

NextWire ==
    \/ \E t \in TypeVals, p \in PayloadSet : NewMessage(t, p)
    \/ EncodeSelf
    \/ \E pos \in 0..(MaxPayload + 4), bit \in 0..7 : FlipBit(pos, bit)
    \/ DecodeRaw

SpecWire == Init /\ [][NextWire]_vars

(***************************************************************************)
(* The message type codes of ant.core.constants and the type registry.     *)
(***************************************************************************)
MESSAGE_VERSION == 62
MESSAGE_CHANNEL_EVENT == 64
MESSAGE_CHANNEL_UNASSIGN == 65
MESSAGE_CHANNEL_ASSIGN == 66
MESSAGE_CHANNEL_PERIOD == 67
MESSAGE_CHANNEL_SEARCH_TIMEOUT == 68
MESSAGE_CHANNEL_FREQUENCY == 69
MESSAGE_NETWORK_KEY == 70
MESSAGE_TX_POWER == 71
MESSAGE_SYSTEM_RESET == 74
MESSAGE_CHANNEL_OPEN == 75
MESSAGE_CHANNEL_CLOSE == 76
MESSAGE_CHANNEL_REQUEST == 77
MESSAGE_CHANNEL_BROADCAST_DATA == 78
MESSAGE_CHANNEL_ACKNOWLEDGED_DATA == 79
MESSAGE_CHANNEL_BURST_DATA == 80
MESSAGE_CHANNEL_ID == 81
MESSAGE_CHANNEL_STATUS == 82
MESSAGE_CAPABILITIES == 84
MESSAGE_CHANNEL_TX_POWER == 96
MESSAGE_SERIAL_NUMBER == 97
MESSAGE_STARTUP == 111

\* the registry, as pairs of a type code and the class it constructs
TYPE_TABLE_ITEMS ==
    { <<MESSAGE_CHANNEL_UNASSIGN, "ChannelUnassignMessage">>,
      <<MESSAGE_CHANNEL_ASSIGN, "ChannelAssignMessage">>,
      <<MESSAGE_CHANNEL_ID, "ChannelIDMessage">>,
      <<MESSAGE_CHANNEL_PERIOD, "ChannelPeriodMessage">>,
      <<MESSAGE_CHANNEL_SEARCH_TIMEOUT, "ChannelSearchTimeoutMessage">>,
      <<MESSAGE_CHANNEL_FREQUENCY, "ChannelFrequencyMessage">>,
      <<MESSAGE_CHANNEL_TX_POWER, "ChannelTXPowerMessage">>,
      <<MESSAGE_NETWORK_KEY, "NetworkKeyMessage">>,
      <<MESSAGE_TX_POWER, "TXPowerMessage">>,
      <<MESSAGE_SYSTEM_RESET, "SystemResetMessage">>,
      <<MESSAGE_CHANNEL_OPEN, "ChannelOpenMessage">>,
      <<MESSAGE_CHANNEL_CLOSE, "ChannelCloseMessage">>,
      <<MESSAGE_CHANNEL_REQUEST, "ChannelRequestMessage">>,
      <<MESSAGE_CHANNEL_BROADCAST_DATA, "ChannelBroadcastDataMessage">>,
      <<MESSAGE_CHANNEL_ACKNOWLEDGED_DATA, "ChannelAcknowledgedDataMessage">>,
      <<MESSAGE_CHANNEL_BURST_DATA, "ChannelBurstDataMessage">>,
      <<MESSAGE_CHANNEL_EVENT, "ChannelEventMessage">>,
      <<MESSAGE_CHANNEL_STATUS, "ChannelStatusMessage">>,
      <<MESSAGE_VERSION, "VersionMessage">>,
      <<MESSAGE_CAPABILITIES, "CapabilitiesMessage">>,
      <<MESSAGE_SERIAL_NUMBER, "SerialNumberMessage">>,
      <<MESSAGE_STARTUP, "StartupMessage">> }

TYPE_TABLE ==
    [t \in {e[1] : e \in TYPE_TABLE_ITEMS} |->
        (CHOOSE e \in TYPE_TABLE_ITEMS : e[1] = t)[2]]

Classes == {e[2] : e \in TYPE_TABLE_ITEMS}

\* the type code a class hands to Message.__init__
TypeOf(cls) == (CHOOSE e \in TYPE_TABLE_ITEMS : e[2] = cls)[1]

\* the subclasses of ChannelMessage
ChannelClasses ==
    { "ChannelUnassignMessage", "ChannelAssignMessage", "ChannelIDMessage",
      "ChannelPeriodMessage", "ChannelSearchTimeoutMessage",
      "ChannelFrequencyMessage", "ChannelTXPowerMessage", "ChannelOpenMessage",
      "ChannelCloseMessage", "ChannelRequestMessage",
      "ChannelBroadcastDataMessage", "ChannelAcknowledgedDataMessage",
      "ChannelBurstDataMessage", "ChannelEventMessage", "ChannelStatusMessage" }

\* the three data messages, whose constructor takes the payload after the
\* channel byte
DataClasses ==
    { "ChannelBroadcastDataMessage", "ChannelAcknowledgedDataMessage",
      "ChannelBurstDataMessage" }

(***************************************************************************)
(* The field setters.  A setter works on the payload bytearray and ends    *)
(* with an outcome; rebind says that it stored a new bytearray             *)
(* (setPayload) instead of writing into the one the message holds.         *)
(***************************************************************************)
SetResult(out, payload, rebind) ==
    [out |-> out, payload |-> payload, rebind |-> rebind]

Zeros(n) == [i \in 1..n |-> 0]

Min(a, b) == IF a < b THEN a ELSE b

\* payload[lo:hi] = bytes, with Python's clamping of the slice bounds
SliceAssign(p, lo, hi, bytes) ==
    LET l == Min(lo, Len(p))
        h == IF Min(hi, Len(p)) < l THEN l ELSE Min(hi, Len(p))
    IN  Slice(p, 0, l) \o bytes \o Slice(p, h, Len(p))

\* payload[off] = v, after the setter's own range check when it has one;
\* without one the bytearray refuses a value that is no byte
setByte(p, off, v, checked) ==
    IF checked /\ (v > ByteMax \/ v < 0) THEN SetResult("MessageError", p, FALSE)
    ELSE IF off >= Len(p) THEN SetResult("IndexError", p, FALSE)
    ELSE IF ~IsByte(v) THEN SetResult("ValueError", p, FALSE)
    ELSE SetResult(OK, [p EXCEPT ![off + 1] = v], FALSE)

\* payload[1:3] = struct.pack('<H', v)
setWord(p, v) ==
    IF v < 0 \/ v > 65535 THEN SetResult("struct.error", p, FALSE)
    ELSE SetResult(OK, SliceAssign(p, 1, 3, <<v % 256, v \div 256>>), FALSE)

\* NetworkKeyMessage.setKey: payload[1:] = key
setKey(p, key) == SetResult(OK, SliceAssign(p, 1, Len(p), key), FALSE)

\* setVersion, setSerialNumber: a length check, then setPayload(bytearray(v))
setBytes(p, v, n) ==
    IF Len(v) # n THEN SetResult("MessageError", p, FALSE)
    ELSE IF setPayloadOutcome(v) # OK THEN SetResult(setPayloadOutcome(v), p, FALSE)
    ELSE SetResult(OK, v, TRUE)

\* CapabilitiesMessage.setAdvOptions2
setAdvOptions2(p, num) ==
    IF num > ByteMax \/ num < 0 THEN SetResult("MessageError", p, FALSE)
    ELSE LET q == IF Len(p) = 4 THEN Append(p, 0) ELSE p
         IN  IF Len(q) <= 4 THEN SetResult("IndexError", q, FALSE)
             ELSE SetResult(OK, [q EXCEPT ![5] = num], FALSE)

Setter(cls, name, kind, off, checked) ==
    [cls |-> cls, name |-> name, kind |-> kind, off |-> off, checked |-> checked]

\* every setter of every class: its kind, the payload offset it writes (the
\* length it expects, for setVersion and setSerialNumber) and whether it
\* checks the range itself
Setters ==
    {Setter(c, "setChannelNumber", "byte", 0, TRUE) : c \in ChannelClasses}
    \cup
    { Setter("ChannelAssignMessage", "setChannelType", "byte", 1, FALSE),
      Setter("ChannelAssignMessage", "setNetworkNumber", "byte", 2, FALSE),
      Setter("ChannelIDMessage", "setDeviceNumber", "word", 1, FALSE),
      Setter("ChannelIDMessage", "setDeviceType", "byte", 3, FALSE),
      Setter("ChannelIDMessage", "setTransmissionType", "byte", 4, FALSE),
      Setter("ChannelPeriodMessage", "setChannelPeriod", "word", 1, FALSE),
      Setter("ChannelSearchTimeoutMessage", "setTimeout", "byte", 1, FALSE),
      Setter("ChannelFrequencyMessage", "setFrequency", "byte", 1, FALSE),
      Setter("ChannelTXPowerMessage", "setPower", "byte", 1, FALSE),
      Setter("NetworkKeyMessage", "setNumber", "byte", 0, FALSE),
      Setter("NetworkKeyMessage", "setKey", "key", 1, FALSE),
      Setter("TXPowerMessage", "setPower", "byte", 1, FALSE),
      Setter("ChannelRequestMessage", "setMessageID", "byte", 1, TRUE),
      Setter("ChannelEventMessage", "setMessageID", "byte", 1, TRUE),
      Setter("ChannelEventMessage", "setMessageCode", "byte", 2, TRUE),
      Setter("ChannelStatusMessage", "setStatus", "byte", 1, TRUE),
      Setter("VersionMessage", "setVersion", "bytes", 9, TRUE),
      Setter("StartupMessage", "setStartupMessage", "byte", 0, TRUE),
      Setter("CapabilitiesMessage", "setMaxChannels", "byte", 0, TRUE),
      Setter("CapabilitiesMessage", "setMaxNetworks", "byte", 1, TRUE),
      Setter("CapabilitiesMessage", "setStdOptions", "byte", 2, TRUE),
      Setter("CapabilitiesMessage", "setAdvOptions", "byte", 3, TRUE),
      Setter("CapabilitiesMessage", "setAdvOptions2", "adv2", 4, TRUE),
      Setter("SerialNumberMessage", "setSerialNumber", "bytes", 4, TRUE) }

SetterOf(cls, name) == CHOOSE s \in Setters : s.cls = cls /\ s.name = name

\* the call s.name(v) on a message that holds payload p
CallSetter(s, p, v) ==
    IF s.kind = "byte" THEN setByte(p, s.off, v, s.checked)
    ELSE IF s.kind = "word" THEN setWord(p, v)
    ELSE IF s.kind = "key" THEN setKey(p, v)
    ELSE IF s.kind = "bytes" THEN setBytes(p, v, s.off)
    ELSE setAdvOptions2(p, v)

(***************************************************************************)
(* The constructors: Message.__init__ with the class's type code and an    *)
(* all-zero payload (bytearray(n), after the channel byte for a channel    *)
(* message), then the setter calls in the order of the constructor's body. *)
(***************************************************************************)
\* the length of the bytearray the class hands to its base constructor
BaseLen(cls) ==
    CASE cls = "ChannelAssignMessage" -> 2
      [] cls = "ChannelIDMessage" -> 4
      [] cls = "ChannelPeriodMessage" -> 2
      [] cls = "ChannelSearchTimeoutMessage" -> 1
      [] cls = "ChannelFrequencyMessage" -> 1
      [] cls = "ChannelTXPowerMessage" -> 1
      [] cls = "NetworkKeyMessage" -> 9
      [] cls = "TXPowerMessage" -> 2
      [] cls = "SystemResetMessage" -> 1
      [] cls = "ChannelRequestMessage" -> 1
      [] cls = "ChannelEventMessage" -> 2
      [] cls = "ChannelStatusMessage" -> 1
      [] cls = "VersionMessage" -> 9
      [] cls = "StartupMessage" -> 1
      [] cls = "CapabilitiesMessage" -> 4
      [] OTHER -> 0

\* the setters a constructor calls, in order, after Message.__init__
OwnSteps(cls) ==
    CASE cls = "ChannelAssignMessage" -> <<"setChannelType", "setNetworkNumber">>
      [] cls = "ChannelIDMessage" ->
            <<"setDeviceNumber", "setDeviceType", "setTransmissionType">>
      [] cls = "ChannelPeriodMessage" -> <<"setChannelPeriod">>
      [] cls = "ChannelSearchTimeoutMessage" -> <<"setTimeout">>
      [] cls = "ChannelFrequencyMessage" -> <<"setFrequency">>
      [] cls = "ChannelTXPowerMessage" -> <<"setPower">>
      [] cls = "NetworkKeyMessage" -> <<"setNumber", "setKey">>
      [] cls = "TXPowerMessage" -> <<"setPower">>
      [] cls = "ChannelRequestMessage" -> <<"setMessageID">>
      [] cls = "ChannelEventMessage" -> <<"setMessageID", "setMessageCode">>
      [] cls = "ChannelStatusMessage" -> <<"setStatus">>
      [] cls = "VersionMessage" -> <<"setVersion">>
      [] cls = "StartupMessage" -> <<"setStartupMessage">>
      [] cls = "CapabilitiesMessage" ->
            <<"setMaxChannels", "setMaxNetworks", "setStdOptions",
              "setAdvOptions", "setAdvOptions2">>
      [] cls = "SerialNumberMessage" -> <<"setSerialNumber">>
      [] OTHER -> <<>>

Steps(cls) ==
    (IF cls \in ChannelClasses THEN <<"setChannelNumber">> ELSE <<>>)
        \o OwnSteps(cls)

\* the default values of the constructor's parameters, in the order of
\* Steps; the optional adv_opts2 is <<v>> or, for None, <<>>
OwnDefaults(cls) ==
    CASE cls = "ChannelAssignMessage" -> <<0, 0>>
      [] cls = "ChannelIDMessage" -> <<0, 0, 0>>
      [] cls = "ChannelPeriodMessage" -> <<8192>>
      [] cls = "ChannelSearchTimeoutMessage" -> <<255>>
      [] cls = "ChannelFrequencyMessage" -> <<66>>
      [] cls = "ChannelTXPowerMessage" -> <<0>>
      [] cls = "NetworkKeyMessage" -> <<0, Zeros(8)>>
      [] cls = "TXPowerMessage" -> <<0>>
      [] cls = "ChannelRequestMessage" -> <<MESSAGE_CHANNEL_STATUS>>
      [] cls = "ChannelEventMessage" -> <<0, 0>>
      [] cls = "ChannelStatusMessage" -> <<0>>
      [] cls = "VersionMessage" -> <<Zeros(9)>>
      [] cls = "StartupMessage" -> <<0>>
      [] cls = "CapabilitiesMessage" -> <<0, 0, 0, 0, <<0>> >>
      [] cls = "SerialNumberMessage" -> <<Zeros(4)>>
      [] OTHER -> <<>>

Defaults(cls) ==
    (IF cls \in ChannelClasses THEN <<0>> ELSE <<>>) \o OwnDefaults(cls)

\* the default of the data parameter of the data messages
DefaultData(cls) == IF cls \in DataClasses THEN Zeros(7) ELSE <<>>

\* the payload handed to Message.__init__
BasePayload(cls, data) ==
    IF cls \in DataClasses THEN Zeros(1) \o data
    ELSE IF cls \in ChannelClasses THEN Zeros(1) \o Zeros(BaseLen(cls))
    ELSE Zeros(BaseLen(cls))

\* the constructor's setter calls from the k-th on
RECURSIVE RunSteps(_, _, _, _)
RunSteps(cls, p, vals, k) ==
    IF k > Len(Steps(cls)) THEN SetResult(OK, p, FALSE)
    ELSE LET s == SetterOf(cls, Steps(cls)[k])
             r == IF s.kind = "adv2"
                      THEN \* if adv_opts2 is not None: self.setAdvOptions2(adv_opts2)
                           IF vals[k] = <<>> THEN SetResult(OK, p, FALSE)
                           ELSE setAdvOptions2(p, vals[k][1])
                  ELSE CallSetter(s, p, vals[k])
         IN  IF r.out # OK THEN r ELSE RunSteps(cls, r.payload, vals, k + 1)

\* cls(...): the outcome and the payload of the new message
Construct(cls, data, vals) ==
    LET base == BasePayload(cls, data)
    IN  IF MessageInitOutcome(TypeOf(cls), base) # OK
            THEN SetResult(MessageInitOutcome(TypeOf(cls), base), base, FALSE)
        ELSE RunSteps(cls, base, vals, 1)

(***************************************************************************)
(* hnd: a message of any class, built by a constructor or returned by      *)
(* getHandler, and the calls on it.                                        *)
(***************************************************************************)
\* values handed to the setters, by kind of setter: in and out of range
KeySet == {Fill(n) : n \in {0, 7, 8, 9}}

TestVals(kind) ==
    CASE kind = "byte" -> {3, 0 - 1, ByteMax + 1}
      [] kind = "word" -> {1000, 65536}
      [] kind = "key" -> KeySet
      [] kind = "bytes" -> {Fill(4), Fill(9)}
      [] kind = "adv2" -> {3, ByteMax + 1}

\* the same for a constructor's parameter: adv_opts2 may be None
ParamVals(kind) ==
    IF kind = "adv2" THEN {<<>>, <<3>>, <<ByteMax + 1>>} ELSE TestVals(kind)

\* the constructor calls of the model: every parameter at its default, or
\* one parameter given
ArgChoices(cls) ==
    {Defaults(cls)} \cup
    UNION {{[Defaults(cls) EXCEPT ![k] = v] :
                v \in ParamVals(SetterOf(cls, Steps(cls)[k]).kind)}
              : k \in 1..Len(Steps(cls))}

DataChoices(cls) ==
    IF cls \in DataClasses THEN {Zeros(7), Fill(8), Fill(9)} ELSE {<<>>}

\* hnd = Message(t, p)
NewPlain(t, p) ==
    LET out == MessageInitOutcome(t, p)
        r == FreshRef
        h == [cls |-> "Message", type_ |-> t, payload |-> r]
    IN  /\ IF out = OK
              THEN Store([heap EXCEPT ![r] = p], self, h)
              ELSE UNCHANGED <<self, hnd, heap>>
        /\ last' = Done("Message", out, 0, NoVal, <<>>)
        /\ UNCHANGED <<raw, wire, stream, cursor, sent, rcvd>>

\* hnd = cls(...)
NewVariant(cls, data, vals) ==
    \E c \in {Construct(cls, data, vals)} :
    LET r == FreshRef
        h == [cls |-> cls, type_ |-> TypeOf(cls), payload |-> r]
    IN  /\ IF c.out = OK
              THEN Store([heap EXCEPT ![r] = c.payload], self, h)
              ELSE UNCHANGED <<self, hnd, heap>>
        /\ last' = Done("new", c.out, 0, NoVal,
                        IF c.out = OK THEN <<cls, vals>> ELSE <<>>)
        /\ UNCHANGED <<raw, wire, stream, cursor, sent, rcvd>>

\* hnd.<setter>(v): a setter writes into the bytearray hnd holds, which is
\* also self's when the two messages hold the same one
HandlerSet(s, v) ==
    /\ hnd.cls = s.cls
    /\ \E c \in {CallSetter(s, heap[hnd.payload], v)} :
          LET r == FreshRef
              h == [hnd EXCEPT !.payload = r]
          IN  /\ IF c.rebind
                    THEN Store([heap EXCEPT ![r] = c.payload], self, h)
                    ELSE Store([heap EXCEPT ![hnd.payload] = c.payload],
                               self, hnd)
              /\ last' = Done(s.name, c.out, 0,
                              IF s.kind = "adv2" THEN Val(hnd) ELSE NoVal, <<>>)
    /\ UNCHANGED <<raw, wire, stream, cursor, sent, rcvd>>

\* hnd.setType(t)
HandlerSetType(t) ==
    LET out == setTypeOutcome(t)
    IN  /\ hnd.cls # "none"
        /\ hnd' = IF out = OK THEN [hnd EXCEPT !.type_ = t] ELSE hnd
        /\ last' = Done("setType", out, 0, NoVal, <<>>)
        /\ UNCHANGED <<self, heap, raw, wire, stream, cursor, sent, rcvd>>

\* hnd.setPayload(p)
HandlerSetPayload(p) ==
    LET out == setPayloadOutcome(p)
        r == FreshRef
        h == [hnd EXCEPT !.payload = r]
    IN  /\ hnd.cls # "none"
        /\ IF out = OK
              THEN Store([heap EXCEPT ![r] = p], self, h)
              ELSE UNCHANGED <<self, hnd, heap>>
        /\ last' = Done("setPayload", out, 0, NoVal, <<>>)
        /\ UNCHANGED <<raw, wire, stream, cursor, sent, rcvd>>

\* CapabilitiesMessage.getAdvOptions2
getAdvOptions2(p) == IF Len(p) = 5 THEN At(p, 4) ELSE 0

GetAdvOptions2 ==
    /\ hnd.cls = "CapabilitiesMessage"
    /\ last' = Done("getAdvOptions2", OK, getAdvOptions2(heap[hnd.payload]),
                    Val(hnd), <<>>)
    /\ UNCHANGED <<self, hnd, heap, raw, wire, stream, cursor, sent, rcvd>>

\* hnd.encode()
EncodeHandler ==
    /\ hnd.cls # "none"
    /\ last' = Done("encode", OK, encode(hnd.type_, heap[hnd.payload]),
                    Val(hnd), <<>>)
    /\ UNCHANGED <<self, hnd, heap, raw, wire, stream, cursor, sent, rcvd>>

NextVariant ==
    \/ \E t \in TypeVals \cup BadTypes, p \in PayloadSet : NewPlain(t, p)
    \/ \E cls \in Classes :
          \E data \in DataChoices(cls), vals \in ArgChoices(cls) :
              NewVariant(cls, data, vals)
    \/ \E s \in Setters : \E v \in TestVals(s.kind) : HandlerSet(s, v)
    \/ \E t \in TypeVals \cup BadTypes : HandlerSetType(t)
    \/ \E p \in PayloadSet : HandlerSetPayload(p)
    \/ GetAdvOptions2
    \/ EncodeHandler

SpecVariant == Init /\ [][NextVariant]_vars

(***************************************************************************)
(* getHandler.                                                             *)
(***************************************************************************)
HandlerResult(out, cls, d) == [out |-> out, cls |-> cls, d |-> d]

getHandlerFallback(m, b) ==
    LET d == decode(m, b)
    IN  IF d.out # OK THEN HandlerResult(d.out, "none", d)
        ELSE IF d.type_ \notin DOMAIN TYPE_TABLE
            THEN HandlerResult(OK, "Message", d)
        ELSE HandlerResult(OK, TYPE_TABLE[d.type_], d)

\* self.getHandler(b): the outcome, the class of the message returned
\* ("none" when getHandler raises) and what decode did to self
getHandler(m, b) ==
    LET d == decode(m, b)
    IN  IF d.out # OK THEN HandlerResult(d.out, "none", d)
        ELSE IF d.type_ \notin DOMAIN TYPE_TABLE
            THEN HandlerResult("KeyError", "none", d)
        ELSE LET cls == TYPE_TABLE[d.type_]
                 c == Construct(cls, DefaultData(cls), Defaults(cls))
             IN  IF c.out # OK THEN HandlerResult(c.out, "none", d)
                 ELSE IF setPayloadOutcome(d.payload) # OK
                     THEN HandlerResult(setPayloadOutcome(d.payload), "none", d)
                 ELSE HandlerResult(OK, cls, d)

\* msg.setPayload(self.payload) hands msg the bytearray self holds
GetHandler(b) ==
    \E g \in {getHandler(Val(self), b)} :
    LET r == FreshRef
        s == IF g.d.wrote THEN [type_ |-> g.d.type_, payload |-> r] ELSE self
        h == IF g.cls = "none" THEN hnd
             ELSE [cls |-> g.cls,
                   type_ |-> IF g.cls = "Message" THEN 0 ELSE TypeOf(g.cls),
                   payload |-> s.payload]
    IN  /\ Store(IF g.d.wrote THEN [heap EXCEPT ![r] = g.d.payload] ELSE heap,
                 s, h)
        /\ last' = Done("getHandler", g.out, g.cls, NoVal, b)
        /\ UNCHANGED <<raw, wire, stream, cursor, sent, rcvd>>

\* the frames handed to getHandler: of a few types with several payloads, of
\* every registered type with one payload, and of each a copy cut short and
\* a copy with a wrong checksum
HandlerTypes ==
    {0, MESSAGE_CHANNEL_OPEN, MESSAGE_CAPABILITIES, MESSAGE_NETWORK_KEY}

HandlerFrames ==
    {encode(t, p) : t \in HandlerTypes, p \in {<<3>>, Zeros(4), Fill(MaxPayload)}}
        \cup {encode(t, <<3>>) : t \in DOMAIN TYPE_TABLE}

CutShort(b) == SubSeq(b, 1, Len(b) - 1)

BadFrames ==
    LET b == encode(MESSAGE_CHANNEL_OPEN, <<0>>)
    IN  {CutShort(b), FlipAt(b, Len(b) - 1, 0), FlipAt(b, 0, 0), FlipAt(b, 1, 4)}

HandlerBufs == HandlerFrames \cup BadFrames

NextHandler ==
    \/ \E b \in HandlerBufs : GetHandler(b)
    \/ \E s \in Setters : \E v \in TestVals(s.kind) : HandlerSet(s, v)
    \/ \E p \in PayloadSet : SetPayload(p)

SpecHandler == Init /\ [][NextHandler]_vars

(***************************************************************************)
(* A stream of frames: the sender appends the frames of up to MaxFrames    *)
(* messages; the receiver then decodes at the cursor and moves the cursor  *)
(* by what decode returns.                                                 *)
(***************************************************************************)
SendFrame(t, p) ==
    /\ Len(sent) < MaxFrames
    /\ last.op \in {"init", "send"}
    /\ MessageInitOutcome(t, p) = OK
    /\ Store([heap EXCEPT ![FreshRef] = p],
             [type_ |-> t, payload |-> FreshRef], hnd)
    /\ stream' = stream \o encode(t, p)
    /\ sent' = Append(sent, [type_ |-> t, payload |-> p])
    /\ last' = Done("send", OK, 0, NoVal, <<>>)
    /\ UNCHANGED <<raw, wire, cursor, rcvd>>

DecodeNext ==
    /\ cursor < Len(stream)
    /\ \E d \in {decode(Val(self), Slice(stream, cursor, Len(stream)))} :
          /\ IF d.wrote
                THEN Store([heap EXCEPT ![FreshRef] = d.payload],
                           [type_ |-> d.type_, payload |-> FreshRef], hnd)
                ELSE UNCHANGED <<self, hnd, heap>>
          /\ IF d.out = OK
                THEN /\ rcvd' = Append(rcvd, [type_ |-> d.type_,
                                              payload |-> d.payload])
                     /\ cursor' = cursor + d.ret
                ELSE UNCHANGED <<rcvd, cursor>>
          /\ last' = Done("decode", d.out, d.ret, Val(self),
                          Slice(stream, cursor, Len(stream)))
    /\ UNCHANGED <<raw, wire, stream, sent>>

NextStream ==
    \/ \E t \in TypeVals, p \in PayloadSet : SendFrame(t, p)
    \/ DecodeNext

SpecStream == Init /\ [][NextStream]_vars

(***************************************************************************)
(* Properties of the frame codec.                                          *)
(***************************************************************************)
\* the bytes of a sequence xor-ed together
RECURSIVE XorAll(_)
XorAll(s) == IF s = <<>> THEN 0 ELSE Xor(Head(s), XorAll(Tail(s)))

\* the frame of type t and payload p, as the wire layout lays it out
Frame(t, p) == <<164, Len(p), t>> \o p \o <<XorAll(<<164, Len(p), t>> \o p)>>

\* decode has just run on the frame that encode makes of (t, p)
DecodedFrameOf(t, p) == last.op = "decode" /\ last.arg = encode(t, p)

RoundTrips(t, p) ==
    DecodedFrameOf(t, p) =>
        /\ last.out = OK
        /\ Val(self) = [type_ |-> t, payload |-> p]
        /\ last.ret = Len(p) + 4

\* C1, as stated: for every type t in 0..255 and every payload p of 0 to 9
\* bytes, decode of encode(t, p) succeeds, leaves the decoding message with
\* type t and payload p, and returns len(p) + 4.
C1_RoundTripFromEmpty ==
    \A t \in 0..255 : \A p \in PayloadSet : Len(p) <= 9 => RoundTrips(t, p)

\* C1, amended: the same for every payload p of 1 to 9 bytes; the 4-byte
\* frame of an empty payload is shorter than decode accepts.
C1_RoundTrip ==
    \A t \in 0..255 : \A p \in PayloadSet :
        (1 <= Len(p) /\ Len(p) <= 9) => RoundTrips(t, p)

\* a message that held something else has decoded the frame of (0x4B, [3])
C1_Witness ==
    /\ DecodedFrameOf(75, <<3>>)
    /\ last.pre # [type_ |-> 75, payload |-> <<3>>]
    /\ Val(self) = [type_ |-> 75, payload |-> <<3>>]
    /\ last.ret = 5

\* the outcome of decode on buffer b by the first failing check
FirstFailing(b) ==
    IF Len(b) < 5 THEN INCOMPLETE
    ELSE IF b[1] # 164 THEN CORRUPTED
    ELSE IF b[2] > 9 THEN MALFORMED
    ELSE IF Len(b) < b[2] + 4 THEN INCOMPLETE
    ELSE IF XorAll(SubSeq(b, 1, b[2] + 3)) # b[b[2] + 4] THEN CORRUPTED
    ELSE OK

\* C2: the outcome of decode is that of the first failing check in the order
\* (1) fewer than 5 bytes: INCOMPLETE, (2) wrong sync: CORRUPTED, (3) length
\* above 9: MALFORMED, (4) fewer than length + 4 bytes: INCOMPLETE, (5) xor
\* mismatch: CORRUPTED; with no failing check decode returns length + 4.
C2_ValidationOrder ==
    last.op = "decode" =>
        /\ last.out = FirstFailing(last.arg)
        /\ last.out = OK => last.ret = last.arg[2] + 4

\* a buffer of 5 bytes with a wrong sync and a length above 9 was refused as
\* CORRUPTED: the sync check came first
C2_Witness ==
    /\ last.op = "decode"
    /\ Len(last.arg) >= 5
    /\ last.arg[1] # 164
    /\ last.arg[2] > 9
    /\ last.out = CORRUPTED

\* decode has just run on an encoded frame with one bit flipped
DecodedFlipped == last.op = "decode" /\ wire.src = "flip" /\ last.arg = raw

\* C3, as stated: flipping any single bit of a frame that encode produced
\* makes decode fail with CORRUPTED.
C3_AnyFlipCorrupted == DecodedFlipped => last.out = CORRUPTED

\* C3, amended: for a frame of a non-empty payload, a flipped bit in the
\* sync, type, payload or checksum byte makes decode fail with CORRUPTED; a
\* flipped bit in the length byte gives MALFORMED when the new length is
\* above 9, INCOMPLETE when it is above the original length, and for a
\* smaller length CORRUPTED unless the byte now taken for the checksum
\* equals the xor of the shortened frame, when decode succeeds.
C3_FlipOutcome ==
    (DecodedFlipped /\ Len(wire.orig) >= 5) =>
        LET b == last.arg
            len0 == wire.orig[2]
            len1 == b[2]
        IN  IF wire.pos # 1 THEN last.out = CORRUPTED
            ELSE IF len1 > 9 THEN last.out = MALFORMED
            ELSE IF len1 > len0 THEN last.out = INCOMPLETE
            ELSE IF XorAll(SubSeq(b, 1, len1 + 3)) = b[len1 + 4]
                THEN last.out = OK /\ last.ret = len1 + 4
            ELSE last.out = CORRUPTED

\* a flipped bit of the type byte was caught by the checksum comparison
C3_Witness ==
    /\ DecodedFlipped
    /\ Len(wire.orig) >= 5
    /\ wire.pos = 2
    /\ last.out = CORRUPTED
    /\ last.pre # Val(self)

\* a flipped bit of the length byte went unnoticed
C3_LengthFlipAccepted ==
    /\ DecodedFlipped
    /\ Len(wire.orig) >= 5
    /\ wire.pos = 1
    /\ last.out = OK

\* C10: whenever decode fails, the type and the payload of the message are
\* what they were before the call.
C10_FailedDecodeUnchanged ==
    (last.op = "decode" /\ last.out # OK) => Val(self) = last.pre

(***************************************************************************)
(* Properties of the message classes.                                      *)
(***************************************************************************)
\* C4: whatever constructor and setter calls were made, and however each
\* ended, the type of a message is in 0..255 and its payload has at most 9
\* bytes.
C4_MessageInvariant ==
    hnd.cls # "none" =>
        /\ hnd.type_ >= 0 /\ hnd.type_ <= 255
        /\ Len(heap[hnd.payload]) <= 9

\* C5: encode returns len(p) + 4 bytes: SYNC, len(p), t, the bytes of p and
\* the xor of all of these, and leaves the message's type and payload as
\* they were.
C5_EncodeLayout ==
    last.op = "encode" =>
        /\ last.ret = Frame(last.pre.type_, last.pre.payload)
        /\ Len(last.ret) = Len(last.pre.payload) + 4
        /\ Val(hnd) = last.pre

\* the channel-open message for channel 3 was encoded to
\* [0xA4, 0x01, 0x4B, 0x03, 0xA4 ^ 0x01 ^ 0x4B ^ 0x03]
C5_Witness ==
    /\ last.op = "encode"
    /\ hnd.cls = "ChannelOpenMessage"
    /\ last.ret = <<164, 1, 75, 3, 237>>
    /\ 237 = Xor(Xor(Xor(164, 1), 75), 3)

\* getHandler has just run on a frame that decodes and whose type code has
\* no entry in the registry
ResolvedUnknown ==
    /\ last.op = "getHandler"
    /\ decode(NoVal, last.arg).out = OK
    /\ last.arg[3] \notin DOMAIN TYPE_TABLE

\* C6: for a frame that decodes and whose type code is not in the registry,
\* getHandler fails with an outcome that is none of INCOMPLETE, CORRUPTED and
\* MALFORMED, and returns no message.
C6_UnknownType ==
    ResolvedUnknown =>
        /\ last.out \notin {OK, INCOMPLETE, CORRUPTED, MALFORMED}
        /\ last.out = "KeyError"
        /\ last.ret = "none"

\* getHandler failed on a well-formed frame of type 0, which self decoded
C6_Witness ==
    /\ ResolvedUnknown
    /\ last.out = "KeyError"
    /\ Val(self) = [type_ |-> 0, payload |-> <<3>>]

\* C7: a setter call on the message getHandler returned leaves the payload
\* of the message that decoded unchanged, and setPayload on that message
\* leaves the payload of the returned message unchanged.
C7_IndependentInstances ==
    [][ /\ last'.op \in {s.name : s \in Setters}
            => heap'[self'.payload] = heap[self.payload]
        /\ (last'.op = "setPayload" /\ hnd.cls # "none")
            => heap'[hnd'.payload] = heap[hnd.payload] ]_vars

\* the frames of the first n messages sent, together
RECURSIVE FramesLen(_)
FramesLen(n) ==
    IF n = 0 THEN 0 ELSE FramesLen(n - 1) + Len(sent[n].payload) + 4

\* the decode that has just run gave what decode of the frame at the cursor
\* alone gives
AsAlone ==
    LET k == IF last.out = OK THEN Len(rcvd) ELSE Len(rcvd) + 1
        alone == decode(last.pre, encode(sent[k].type_, sent[k].payload))
        here == decode(last.pre, last.arg)
    IN  /\ k >= 1 /\ k <= Len(sent)
        /\ here.out = alone.out /\ last.out = alone.out
        /\ here.ret = alone.ret /\ last.ret = alone.ret
        /\ here.type_ = alone.type_ /\ here.payload = alone.payload

StreamDecodes ==
    /\ Len(rcvd) <= Len(sent)
    /\ rcvd = SubSeq(sent, 1, Len(rcvd))
    /\ cursor = FramesLen(Len(rcvd))
    /\ cursor = Len(stream) => rcvd = sent
    /\ last.op = "decode" => (last.out = OK /\ AsAlone)

\* C8, as stated: decoding the concatenated frames of any valid messages at
\* a cursor moved by the returned count recovers the messages in order and
\* consumes the whole buffer, and the bytes after a frame never change the
\* result of decoding it.
C8_StreamOfAny == StreamDecodes

\* C8, amended: the same for messages whose payloads are not empty.
C8_Stream ==
    (\A i \in 1..Len(sent) : Len(sent[i].payload) >= 1) => StreamDecodes

\* two different messages were recovered, in order, from one buffer
C8_Witness ==
    /\ Len(sent) = 2
    /\ sent[1] # sent[2]
    /\ \A i \in 1..2 : Len(sent[i].payload) >= 1
    /\ last.op = "decode"
    /\ rcvd = sent
    /\ cursor = Len(stream)

\* C9: a Capabilities message constructed without advanced-options-2 has a
\* 4-byte payload; getAdvOptions2 of a 4-byte payload is 0; setAdvOptions2
\* with a byte makes a 4-byte payload one of exactly 5 bytes whose first 4
\* are unchanged, and leaves a 5-byte payload at 5 bytes.
C9_OptionalByte ==
    /\ (last.op = "new" /\ last.out = OK
            /\ last.arg = <<"CapabilitiesMessage", Defaults("CapabilitiesMessage")>>)
        => Len(heap[hnd.payload]) = 4
    /\ (last.op = "getAdvOptions2" /\ Len(last.pre.payload) = 4)
        => last.ret = 0
    /\ (last.op = "setAdvOptions2" /\ last.out = OK
            /\ Len(last.pre.payload) \in {4, 5})
        => /\ Len(heap[hnd.payload]) = 5
           /\ SubSeq(heap[hnd.payload], 1, 4) = SubSeq(last.pre.payload, 1, 4)

=============================================================================
